---- MODULE Spec2Model ----
(***************************************************************************)
(* Resumable streaming ingestion pipeline of                               *)
(* src/ingest/extract_reddit_zst_to_db.py: the coordinator (__main__), the *)
(* pool workers (utils/process.py: process_file), the checkpoint store     *)
(* (utils/progress.py) and the Task Record (utils/file_util.py:            *)
(* FileConfig).                                                            *)
(*                                                                         *)
(* Text is modelled as sequences of one-character strings, so that         *)
(* splitting, stripping, lower-casing and substring search are computed.   *)
(* Byte quantities are scaled (hundreds of bytes per file), line counts    *)
(* are small, and the 1,000,000-line progress throttle, the batch size of  *)
(* 20 and the window capacity of 40 are scaled to the bounds below.        *)
(***************************************************************************)
EXTENDS Integers, Sequences, FiniteSets, TLC

VARIABLES
    cpc,                \* coordinator position: init/get/done/aborted/nofiles/
                        \* unloadable/crashed/killed
    run,                \* number of process starts so far
    args,               \* parsed command line of the current run
    disk,               \* <working>/status.json
    input_files,        \* coordinator's authoritative list of FileConfig
    loaded,             \* the list load_file_list returned at this start (<<>> if none)
    resumed,            \* whether load_file_list found a checkpoint at this start
    files_to_process,   \* indices into input_files, in dispatch order
    queue,              \* the multiprocessing.Manager().Queue() of snapshots
    ready,              \* workers.ready()
    wst,                \* per input file: the pool task running process_file on it
    totals,             \* the coordinator's aggregate counters
    clock,              \* time.time()
    progress_queue,     \* Queue(40) of [time, lines, bytes]
    speed_queue,        \* Queue(40) of bytes per second
    dec,                \* a FileHandle.yield_lines generator over one byte content
    win                 \* a Queue(max_size) of utils/file_util.py and the puts made on it

pipeline == <<cpc, run, args, disk, input_files, loaded, resumed, files_to_process,
              queue, ready, wst, totals, clock, progress_queue, speed_queue>>

vars == <<pipeline, dec, win>>

(***************************************************************************)
(* Bounds of the model.                                                    *)
(***************************************************************************)
MaxRuns == 2            \* process starts explored (a first run and a restart)
Processes == 2          \* --processes
MaxCap == 3             \* largest max_size a Queue is built with
MaxPuts == 4            \* puts made on one Queue
MaxContent == 5         \* bytes of a decompressed content given to the decoder
MaxChunk == 3           \* largest chunk size the decoder is run with
ProgressEvery == 2      \* stands for the 1,000,000-line progress throttle
BatchSize == 2          \* stands for batch_size = 20
WindowCap == 2          \* stands for Queue(40)

None == "None"          \* Python's None where a str is the other case
script_type == "split"

(***************************************************************************)
(* Generic helpers.                                                        *)
(***************************************************************************)
Range(s) == {s[i] : i \in 1..Len(s)}

RECURSIVE SumSeq(_)
SumSeq(s) == IF s = <<>> THEN 0 ELSE Head(s) + SumSeq(Tail(s))

\* Python's int(a / b) for b > 0: truncation toward zero
TruncDiv(a, b) == IF a >= 0 THEN a \div b ELSE -((-a) \div b)

(***************************************************************************)
(* Text, as Python's str methods compute it.                               *)
(***************************************************************************)
lower(c) == IF c = "A" THEN "a" ELSE IF c = "B" THEN "b" ELSE c

LowerStr(s) == [i \in 1..Len(s) |-> lower(s[i])]

RECURSIVE LStrip(_)
LStrip(s) == IF s # <<>> /\ Head(s) = " " THEN LStrip(Tail(s)) ELSE s

RECURSIVE RStrip(_)
RStrip(s) ==
    IF s # <<>> /\ s[Len(s)] = " " THEN RStrip(SubSeq(s, 1, Len(s) - 1)) ELSE s

Strip(s) == RStrip(LStrip(s))

\* str.split(","): the pieces between commas, empty pieces kept
RECURSIVE Split(_, _)
Split(s, cur) ==
    IF s = <<>> THEN <<cur>>
    ELSE IF Head(s) = "," THEN <<cur>> \o Split(Tail(s), <<>>)
    ELSE Split(Tail(s), Append(cur, Head(s)))

\* Python's "v in s" for str
IsSubstring(v, s) ==
    \E i \in 0..(Len(s) - Len(v)) : SubSeq(s, i + 1, i + Len(v)) = v

(***************************************************************************)
(* The command line.  --field is kept at its default; --value is drawn per *)
(* start from ValueArgs.                                                   *)
(***************************************************************************)
FieldArg == "subreddit"

ValueArgs == { <<"a">>, <<"a", ",", " ", "B">> }

\* --comment_depth: -1 (the default, no comments) or 0
CommentDepths == {-1, 0}

\* arg_string = f"{args.field}:{(args.value if args.value else None)}"
ArgString(field, value) ==
    <<field, ":">> \o (IF value # <<>> THEN value ELSE <<"N", "o", "n", "e">>)

\* values = {value.strip().lower() for value in set(args.value.split(","))}
ValueSet(value) == {LowerStr(Strip(v)) : v \in Range(Split(value, <<>>))}

(***************************************************************************)
(* The input tree.  A line is given by what json.loads makes of it; tell   *)
(* is file_handle.tell() when the line is yielded.  corrupt: the decoder   *)
(* raises UnicodeError once the lines listed have been yielded.            *)
(***************************************************************************)
Str(chars) == [type |-> "str", chars |-> chars]
IntVal == [type |-> "int"]
Obj(fields) == [syntax |-> "object", fields |-> fields]
Invalid == [syntax |-> "invalid", fields |-> <<>>]
Array == [syntax |-> "array", fields |-> <<>>]
Ln(json, tell) == [json |-> json, tell |-> tell]

Tree ==
    << [path |-> "RS_2020-01.zst", prefix |-> "RS", ext |-> ".zst", size |-> 300,
        corrupt |-> FALSE,
        lines |-> << Ln(Obj([subreddit |-> Str(<<"x", "A">>)]), 100),
                     Ln(Obj([subreddit |-> Str(<<"a">>)]), 200),
                     Ln(Obj([id |-> Str(<<"x">>)]), 300) >>],
       [path |-> "RC_2020-02.zst", prefix |-> "RC", ext |-> ".zst", size |-> 200,
        corrupt |-> FALSE,
        lines |-> << Ln(Invalid, 100),
                     Ln(Obj([subreddit |-> IntVal]), 200),
                     Ln(Array, 200) >>],
       [path |-> "RS_2020-03.zst", prefix |-> "RS", ext |-> ".zst", size |-> 100,
        corrupt |-> TRUE,
        lines |-> <<>>],
       [path |-> "notes.txt", prefix |-> "no", ext |-> ".txt", size |-> 10,
        corrupt |-> FALSE,
        lines |-> <<>>] >>

TreeFile(path) == Tree[CHOOSE i \in 1..Len(Tree) : Tree[i].path = path]

\* os.stat(input_path).st_size
StatSize(path) == TreeFile(path).size

(***************************************************************************)
(* Task Record.                                                            *)
(***************************************************************************)
\* a Task Record that keeps the saved line count of an unfinished file
FileConfigKeepsOffset(input_path, output_path, complete, lines_processed, error_lines, lines_matched) ==
    [input_path |-> input_path,
     output_path |-> output_path,
     file_size |-> StatSize(input_path),
     complete |-> complete,
     bytes_processed |-> IF complete THEN StatSize(input_path) ELSE 0,
     lines_processed |-> lines_processed,
     error_message |-> None,
     error_lines |-> error_lines,
     lines_matched |-> lines_matched]

FileConfig(input_path, output_path, complete, lines_processed, error_lines, lines_matched) ==
    [input_path |-> input_path,
     output_path |-> output_path,
     file_size |-> StatSize(input_path),
     complete |-> complete,
     bytes_processed |-> IF complete THEN StatSize(input_path) ELSE 0,
     lines_processed |-> IF complete THEN lines_processed ELSE 0,
     error_message |-> None,
     error_lines |-> error_lines,
     lines_matched |-> lines_matched]

(***************************************************************************)
(* Checkpoint store.                                                       *)
(***************************************************************************)
NoFile == [exists |-> FALSE, folder |-> TRUE, intact |-> TRUE, args |-> <<>>, type |-> "", files |-> <<>>]

\* the working folder does not exist yet
NoFolder == [NoFile EXCEPT !.folder = FALSE]

\* status.json after open(status_json, 'w') and before the text is written
Truncated == [exists |-> TRUE, folder |-> TRUE, intact |-> FALSE, args |-> <<>>, type |-> "", files |-> <<>>]

SimpleFile(file) ==
    <<file.input_path, file.output_path, file.complete, file.lines_processed,
      file.error_lines, file.lines_matched>>

\* the document save_file_list writes, the working folder made if it was not
\* there
save_file_list(files, arg_string, type) ==
    [exists |-> TRUE, folder |-> TRUE, intact |-> TRUE, args |-> arg_string, type |-> type,
     files |-> [i \in 1..Len(files) |-> SimpleFile(files[i])]]

\* load_file_list with error_lines and lines_matched taken from each other's slot
load_file_list_swapped(doc) ==
    IF doc.exists /\ ~doc.intact
    THEN [found |-> FALSE, raised |-> TRUE, input_files |-> <<>>, args |-> <<>>,
          type |-> ""]
    ELSE IF doc.exists
    THEN [found |-> TRUE, raised |-> FALSE,
          input_files |-> [i \in 1..Len(doc.files) |->
                              FileConfig(doc.files[i][1], doc.files[i][2], doc.files[i][3],
                                         doc.files[i][4], doc.files[i][6],
                                         doc.files[i][5])],
          args |-> doc.args, type |-> doc.type]
    ELSE [found |-> FALSE, raised |-> FALSE, input_files |-> <<>>, args |-> <<>>,
          type |-> ""]

\* load_file_list: found, input_files, args, type; raised when json.load
\* raises on the text of the file
load_file_list(doc) ==
    IF doc.exists /\ ~doc.intact
    THEN [found |-> FALSE, raised |-> TRUE, input_files |-> <<>>, args |-> <<>>,
          type |-> ""]
    ELSE IF doc.exists
    THEN [found |-> TRUE, raised |-> FALSE,
          input_files |-> [i \in 1..Len(doc.files) |->
                              FileConfig(doc.files[i][1], doc.files[i][2], doc.files[i][3],
                                         doc.files[i][4], doc.files[i][5],
                                         doc.files[i][6])],
          args |-> doc.args, type |-> doc.type]
    ELSE [found |-> FALSE, raised |-> FALSE, input_files |-> <<>>, args |-> <<>>,
          type |-> ""]

\* a checkpoint another run type left in the working folder
ForeignCheckpoint ==
    [exists |-> TRUE, folder |-> TRUE, intact |-> TRUE, args |-> ArgString(FieldArg, <<"a">>),
     type |-> "combine", files |-> <<>>]

(***************************************************************************)
(* process_file: one line of the file.                                     *)
(***************************************************************************)
Exceptions ==
    {"JSONDecodeError", "KeyError", "AttributeError", "TypeError", "UnicodeError",
     "DatabaseError", "ConnectionError"}

\* except (KeyError, json.JSONDecodeError, AttributeError)
PerLineCaught == {"KeyError", "JSONDecodeError", "AttributeError"}

\* a file-level handler that names the errors it expects
FileLevelCaughtNarrow == {"UnicodeError", "DatabaseError"}

\* except Exception
FileLevelCaught == Exceptions

\* json.loads(line)
JsonLoads(json) == IF json.syntax = "invalid" THEN "JSONDecodeError" ELSE None

\* obj[field]
GetItem(json, field) ==
    IF json.syntax # "object" THEN "TypeError"
    ELSE IF field \notin DOMAIN json.fields THEN "KeyError"
    ELSE None

\* obj[field].lower()
LowerOf(val) == IF val.type = "str" THEN None ELSE "AttributeError"

\* value = min(values) if len(values) == 1 else None;
\* matched = value is not None and (value == observed or value in observed)
Matched(values, observed) ==
    /\ Cardinality(values) = 1
    /\ LET value == CHOOSE v \in values : TRUE
       IN  value = observed \/ IsSubstring(value, observed)

\* get_reddit_comments(obj.get("id")): it returns the replies, or raises what
\* requests.get, response.json() or the indexing of the answer raise
FetchOutcomes == {"ok", "KeyError", "ConnectionError"}

\* the body of the per-line try: the record and the batches as the body leaves
\* them, the exception it raises (None if it ends normally) and the number of
\* Matched Records it committed to the sink
TryLine(file, matched_records, comment_records, json, field, values, comment_depth, fetch, sink_ok) ==
    LET out(f, m, c, e, sv) ==
            [file |-> f, matched_records |-> m, comment_records |-> c, exc |-> e,
             saved |-> sv]
        stop(e) == out(file, matched_records, comment_records, e, 0)
    IN  IF JsonLoads(json) # None THEN stop(JsonLoads(json))
        ELSE IF GetItem(json, field) # None THEN stop(GetItem(json, field))
        ELSE IF LowerOf(json.fields[field]) # None
             THEN stop(LowerOf(json.fields[field]))
        ELSE LET observed == LowerStr(json.fields[field].chars)
                 matched == Matched(values, observed)
                 fetched == matched /\ comment_depth >= 0
                 m1 == IF matched THEN matched_records + 1 ELSE matched_records
                 c1 == IF fetched THEN comment_records + 1 ELSE comment_records
                 f1 == IF matched
                       THEN [file EXCEPT !.lines_matched = @ + 1]
                       ELSE file
             IN  IF fetched /\ fetch # "ok" THEN out(file, m1, comment_records, fetch, 0)
                 ELSE IF m1 >= BatchSize
                      THEN IF sink_ok THEN out(f1, 0, 0, None, m1)
                           ELSE out(f1, m1, c1, "DatabaseError", 0)
                 ELSE out(f1, m1, c1, None, 0)

\* a file-level handler that also marks the file complete
FileExceptCompletes(w, f, m, c, exc) ==
    [w EXCEPT !.file = [f EXCEPT !.error_message = exc, !.complete = TRUE],
              !.matched_records = m, !.comment_records = c, !.err = exc,
              !.pc = "returned"]

\* the file-level handler: error_message = str(err); the final put follows and
\* the task returns
FileExcept(w, f, m, c, exc) ==
    IF exc \in FileLevelCaught
    THEN [w EXCEPT !.file = [f EXCEPT !.error_message = exc],
                   !.matched_records = m, !.comment_records = c, !.err = exc,
                   !.pc = "returned"]
    ELSE [w EXCEPT !.file = f, !.matched_records = m, !.comment_records = c,
                   !.err = exc, !.pc = "escaped"]

\* a throttle that lets every line through
ProgressDueAlways(lines_processed) == lines_processed >= 0

\* if file.lines_processed % 1000000 == 0
ProgressDue(lines_processed) == lines_processed % ProgressEvery = 0

\* one iteration of the line loop: the worker afterwards, and whether it put a
\* progress snapshot
LineStep(w, line, field, values, comment_depth, fetch, sink_ok) ==
    LET r == TryLine(w.file, w.matched_records, w.comment_records, line.json, field,
                     values, comment_depth, fetch, sink_ok)
        caught == r.exc \in PerLineCaught
        f1 == IF caught THEN [r.file EXCEPT !.error_lines = @ + 1] ELSE r.file
        f2 == [f1 EXCEPT !.lines_processed = @ + 1]
        tick == ProgressDue(f2.lines_processed)
        f3 == IF tick THEN [f2 EXCEPT !.bytes_processed = line.tell] ELSE f2
    IN  IF r.exc # None /\ ~caught
        THEN [w |-> FileExcept([w EXCEPT !.idx = @ + 1], f1, r.matched_records,
                               r.comment_records, r.exc),
              put |-> FALSE]
        ELSE [w |-> [w EXCEPT !.file = f3, !.matched_records = r.matched_records,
                              !.comment_records = r.comment_records, !.idx = @ + 1,
                              !.saved = @ + r.saved],
              put |-> tick]

(***************************************************************************)
(* The Streaming Decoder: FileHandle.read_and_decode and yield_lines over  *)
(* the decompressed bytes of one file.  A byte is "a", "\n", the lead byte *)
(* "L3" of a three-byte character or a continuation byte "c".              *)
(***************************************************************************)
Bytes == {"a", "\n", "L3", "c"}

Contents == UNION {[1..n -> Bytes] : n \in 0..MaxContent}

ChunkSizes == 1..MaxChunk

\* yield_lines passes chunk_size 2**27 and max_window_size (2**29) * 2
WindowRatio == 8

\* bytes.decode(): strict UTF-8; ok is FALSE where it raises UnicodeDecodeError
RECURSIVE Utf8Decode(_)
Utf8Decode(bs) ==
    IF bs = <<>> THEN [ok |-> TRUE, text |-> <<>>]
    ELSE IF Head(bs) = "L3"
         THEN IF Len(bs) >= 3 /\ bs[2] = "c" /\ bs[3] = "c"
              THEN LET r == Utf8Decode(SubSeq(bs, 4, Len(bs)))
                   IN  [ok |-> r.ok, text |-> IF r.ok THEN <<"euro">> \o r.text ELSE <<>>]
              ELSE [ok |-> FALSE, text |-> <<>>]
    ELSE IF Head(bs) = "c" THEN [ok |-> FALSE, text |-> <<>>]
    ELSE LET r == Utf8Decode(Tail(bs))
         IN  [ok |-> r.ok, text |-> IF r.ok THEN <<Head(bs)>> \o r.text ELSE <<>>]

\* reader.read(chunk_size) at position pos
ReaderRead(content, pos, chunk_size) ==
    SubSeq(content, pos + 1,
           IF pos + chunk_size < Len(content) THEN pos + chunk_size ELSE Len(content))

\* a retry that decodes the new chunk alone
AccumulateNewOnly(previous_chunk, chunk) == chunk

\* chunk = previous_chunk + chunk
Accumulate(previous_chunk, chunk) == previous_chunk \o chunk

\* a window test against twice the window
WindowExceededTwice(bytes_read, max_window_size) == bytes_read > 2 * max_window_size

\* if bytes_read > max_window_size: raise UnicodeError
WindowExceeded(bytes_read, max_window_size) == bytes_read > max_window_size

\* read_and_decode: the decoded text, the reader's position and bytes_read when
\* it returns, or raised
RECURSIVE read_and_decode(_, _, _, _, _, _)
read_and_decode(content, pos, chunk_size, max_window_size, previous_chunk, bytes_read) ==
    LET read == ReaderRead(content, pos, chunk_size)
        br == bytes_read + chunk_size
        chunk == Accumulate(previous_chunk, read)
        d == Utf8Decode(chunk)
    IN  IF d.ok
        THEN [raised |-> FALSE, text |-> d.text, pos |-> pos + Len(read),
              bytes_read |-> br]
        ELSE IF WindowExceeded(br, max_window_size)
             THEN [raised |-> TRUE, text |-> <<>>, pos |-> pos, bytes_read |-> br]
        ELSE read_and_decode(content, pos + Len(read), chunk_size, max_window_size,
                             chunk, br)

\* str.split("\n")
RECURSIVE SplitLines(_, _)
SplitLines(s, cur) ==
    IF s = <<>> THEN <<cur>>
    ELSE IF Head(s) = "\n" THEN <<cur>> \o SplitLines(Tail(s), <<>>)
    ELSE SplitLines(Tail(s), Append(cur, Head(s)))

\* a generator that yields the last segment with the others
AllLines(lines) == lines

\* lines[:-1]
AllButLast(lines) == SubSeq(lines, 1, Len(lines) - 1)

\* no generator: the pipeline's lines are given parsed, in Tree
NoGenerator ==
    [pc |-> "none", content |-> <<>>, chunk_size |-> 1, pos |-> 0, buffer |-> <<>>,
     yielded |-> <<>>, reads |-> 0]

\* the chunk the next iteration of yield_lines' loop gets
DecChunk ==
    read_and_decode(dec.content, dec.pos, dec.chunk_size, WindowRatio * dec.chunk_size,
                    <<>>, 0)

\* an iteration of the loop with a non-empty chunk: the complete lines are
\* yielded, the last segment is kept in buffer
NextChunk ==
    /\ dec.pc = "loop"
    /\ ~DecChunk.raised
    /\ DecChunk.text # <<>>
    /\ LET lines == SplitLines(dec.buffer \o DecChunk.text, <<>>)
       IN  dec' = [dec EXCEPT !.pos = DecChunk.pos,
                              !.reads = DecChunk.bytes_read \div dec.chunk_size,
                              !.yielded = @ \o AllButLast(lines),
                              !.buffer = lines[Len(lines)]]
    /\ UNCHANGED <<pipeline, win>>

\* if not chunk: break; reader.close()
EndOfStream ==
    /\ dec.pc = "loop"
    /\ ~DecChunk.raised
    /\ DecChunk.text = <<>>
    /\ dec' = [dec EXCEPT !.pc = "closed",
                          !.reads = DecChunk.bytes_read \div dec.chunk_size]
    /\ UNCHANGED <<pipeline, win>>

\* read_and_decode raises UnicodeError out of the generator
DecodeRaise ==
    /\ dec.pc = "loop"
    /\ DecChunk.raised
    /\ dec' = [dec EXCEPT !.pc = "raised",
                          !.reads = DecChunk.bytes_read \div dec.chunk_size]
    /\ UNCHANGED <<pipeline, win>>

(***************************************************************************)
(* The coordinator's start-up, lines 79-164 of the script.                 *)
(***************************************************************************)
\* a walk that takes every file of the tree
EligibleAnyName(f) == f.size >= 0

\* os.walk with the name test; no --start_date/--end_date
Eligible(f) == f.ext = ".zst" /\ f.prefix \in {"RC", "RS"}

Discover ==
    LET found == SelectSeq(Tree, Eligible)
    IN  [i \in 1..Len(found) |->
            FileConfig(found[i].path, found[i].path, FALSE, 0, 0, 0)]

\* sorted(input_files, key=file_size, reverse=True), as indices: stable
RECURSIVE InsertDesc(_, _, _)
InsertDesc(files, sorted, x) ==
    IF sorted = <<>> THEN <<x>>
    ELSE IF files[Head(sorted)].file_size >= files[x].file_size
         THEN <<Head(sorted)>> \o InsertDesc(files, Tail(sorted), x)
         ELSE <<x>> \o sorted

RECURSIVE SortedDesc(_, _)
SortedDesc(files, n) ==
    IF n = 0 THEN <<>> ELSE InsertDesc(files, SortedDesc(files, n - 1), n)

\* every file handed to the pool, complete or not
FilesToProcessAll(files) == SortedDesc(files, Len(files))

\* the files handed to the pool: not complete, largest first
FilesToProcess(files) ==
    LET NotComplete(i) == ~files[i].complete
    IN  SelectSeq(SortedDesc(files, Len(files)), NotComplete)

\* lines 138-151: the totals before the pool starts
StartTotals(files) ==
    LET SumOver(fs, Val(_)) == SumSeq([i \in 1..Len(fs) |-> Val(fs[i])])
        size(f) == f.file_size
        done(f) == IF f.complete THEN 1 ELSE 0
        lp(f) == IF f.complete THEN f.lines_processed ELSE 0
        lm(f) == IF f.complete THEN f.lines_matched ELSE 0
        bp(f) == IF f.complete THEN f.file_size ELSE 0
        le(f) == IF f.complete THEN f.error_lines ELSE 0
    IN  [total_bytes |-> SumOver(files, size),
         files_processed |-> SumOver(files, done),
         files_errored |-> 0,
         lines_processed |-> SumOver(files, lp),
         lines_matched |-> SumOver(files, lm),
         bytes_processed |-> SumOver(files, bp),
         lines_errored |-> SumOver(files, le)]

\* lines 197-208: the totals recomputed from the full list
LoopTotals(files, total_bytes) ==
    LET SumOver(fs, Val(_)) == SumSeq([i \in 1..Len(fs) |-> Val(fs[i])])
        done(f) == IF f.complete \/ f.error_message # None THEN 1 ELSE 0
        errd(f) == IF f.error_message # None THEN 1 ELSE 0
        lp(f) == f.lines_processed
        lm(f) == f.lines_matched
        bp(f) == f.bytes_processed
        le(f) == f.error_lines
    IN  [total_bytes |-> total_bytes,
         files_processed |-> SumOver(files, done),
         files_errored |-> SumOver(files, errd),
         lines_processed |-> SumOver(files, lp),
         lines_matched |-> SumOver(files, lm),
         bytes_processed |-> SumOver(files, bp),
         lines_errored |-> SumOver(files, le)]

NoTotals == StartTotals(<<>>)

\* a replacement of every entry by the snapshot
MergeAll(files, update) == [i \in 1..Len(files) |-> update]

\* lines 198-201: the snapshot replaces the entries with its input_path
Merge(files, update) ==
    [i \in 1..Len(files) |->
        IF files[i].input_path = update.input_path THEN update ELSE files[i]]

\* a put that evicts only when the list is over max_size
QueuePutLate(list, item, max_size) ==
    Append(IF Len(list) > max_size THEN Tail(list) ELSE list, item)

\* Queue.put of utils/file_util.py
QueuePut(list, item, max_size) ==
    Append(IF Len(list) >= max_size THEN Tail(list) ELSE list, item)

\* Queue.peek of utils/file_util.py
QueuePeek(list) == IF Len(list) > 0 THEN list[1] ELSE None

(***************************************************************************)
(* The sliding window: class Queue of utils/file_util.py, with the samples *)
(* put on it so far.                                                       *)
(***************************************************************************)
Samples == {"x", "y"}

\* no window under observation
NoWindow == [max_size |-> 1, list |-> <<>>, puts |-> <<>>, peeked |-> None]

\* Queue.put(item)
WinPut ==
    /\ Len(win.puts) < MaxPuts
    /\ \E item \in Samples :
          win' = [win EXCEPT !.list = QueuePut(win.list, item, win.max_size),
                             !.puts = Append(@, item)]
    /\ UNCHANGED <<pipeline, dec>>

\* Queue.peek()
WinPeek ==
    /\ win' = [win EXCEPT !.peeked = QueuePeek(win.list)]
    /\ UNCHANGED <<pipeline, dec>>

\* a channel that hands out the newest message first
ChannelPutFront(q, file) == <<file>> \o q

\* queue.put(file) on the multiprocessing.Manager().Queue(): first in, first out
ChannelPut(q, file) == Append(q, file)

\* a skip of the updates that have counted no line and are not terminal
IsStartUpdateNotTerminal(file_update) ==
    /\ file_update.lines_processed = 0
    /\ ~file_update.complete
    /\ file_update.error_message = None

\* if file_update.lines_processed == 0: ... continue
IsStartUpdate(file_update) == file_update.lines_processed = 0

IdleWorker ==
    [pc |-> "idle", file |-> FileConfig(Tree[1].path, Tree[1].path, FALSE, 0, 0, 0),
     idx |-> 0, matched_records |-> 0, comment_records |-> 0, err |-> None,
     sent |-> <<>>, saved |-> 0]

Workers == 1..Cardinality({i \in 1..Len(Tree) : Eligible(Tree[i])})

Ended == {"init", "done", "aborted", "nofiles", "unloadable", "crashed", "killed"}
Running == {"get"}

\* the exit status of the process: sys.exit(0) on a mismatch and when there are
\* no files, 0 at the end of the script, 1 after an uncaught exception; -1
\* while it runs (or was killed by a signal)
ExitCode(pc) ==
    IF pc \in {"aborted", "nofiles", "done"} THEN 0
    ELSE IF pc \in {"unloadable", "crashed"} THEN 1
    ELSE -1

\* while not workers.ready() or not queue.empty(): the coordinator blocks in
\* queue.get() ("get") or leaves the loop and the pool ("done")
LoopCheck(is_ready, q) == IF ~is_ready \/ q # <<>> THEN "get" ELSE "done"

\* a fingerprint test that compares the field name only
ArgsMismatchFieldOnly(ld, arg_string) ==
    ld.found /\ ld.args # <<>> /\ ld.args[1] # arg_string[1]

\* if saved_arg_string and saved_arg_string != arg_string
ArgsMismatch(ld, arg_string) == ld.found /\ ld.args # <<>> /\ ld.args # arg_string

\* if saved_type and saved_type != script_type
TypeMismatch(ld) == ld.found /\ ld.type # "" /\ ld.type # script_type

Init ==
    /\ cpc = "init"
    /\ run = 0
    /\ args = [field |-> FieldArg, value |-> <<>>, comment_depth |-> -1]
    /\ disk \in {NoFolder, NoFile, ForeignCheckpoint}
    /\ input_files = <<>>
    /\ loaded = <<>>
    /\ resumed = FALSE
    /\ files_to_process = <<>>
    /\ queue = <<>>
    /\ ready = FALSE
    /\ wst = [i \in Workers |-> IdleWorker]
    /\ totals = NoTotals
    /\ clock = 0
    /\ progress_queue = <<>>
    /\ speed_queue = <<>>
    /\ dec = NoGenerator
    /\ win = NoWindow

\* a process start, up to pool.starmap_async and the first test of the loop
\* condition
Start ==
    /\ cpc \in Ended
    /\ run < MaxRuns
    /\ \E v \in ValueArgs, depth \in (IF run = 0 THEN CommentDepths
                                       ELSE {args.comment_depth}) :
        LET arg_string == ArgString(FieldArg, v)
            ld == load_file_list(disk)
            files == IF ld.found THEN ld.input_files ELSE Discover
            ftp == FilesToProcess(files)
            abort == ~ld.raised /\ (ArgsMismatch(ld, arg_string) \/ TypeMismatch(ld))
            stop == ld.raised \/ abort
            go == ~stop /\ Len(files) > 0 /\ Len(ftp) > 0
        IN  /\ run' = run + 1
            /\ args' = [field |-> FieldArg, value |-> v, comment_depth |-> depth]
            /\ loaded' = ld.input_files
            /\ resumed' = ld.found
            /\ queue' = <<>>
            /\ ready' = FALSE
            /\ clock' = 0
            /\ speed_queue' = <<>>
            /\ disk' = IF ~stop /\ ~ld.found
                       THEN save_file_list(files, arg_string, script_type)
                       ELSE disk
            /\ input_files' = IF stop THEN ld.input_files ELSE files
            /\ files_to_process' = IF go THEN ftp ELSE <<>>
            /\ totals' = IF stop \/ Len(files) = 0 THEN NoTotals ELSE StartTotals(files)
            /\ progress_queue' =
                   IF go
                   THEN QueuePut(<<>>, [time |-> 0,
                                        lines |-> StartTotals(files).lines_processed,
                                        bytes |-> StartTotals(files).bytes_processed],
                                 WindowCap)
                   ELSE <<>>
            /\ wst' = [i \in Workers |->
                          IF go /\ i \in Range(ftp)
                          THEN [IdleWorker EXCEPT !.pc = "queued", !.file = files[i]]
                          ELSE IdleWorker]
            /\ cpc' = IF ld.raised THEN "unloadable"
                      ELSE IF abort THEN "aborted"
                      ELSE IF Len(files) = 0 THEN "nofiles"
                      ELSE IF Len(ftp) = 0 THEN "done"
                      ELSE LoopCheck(FALSE, <<>>)
    /\ UNCHANGED <<dec, win>>

(***************************************************************************)
(* The pool: one task per file of files_to_process, taken in order by      *)
(* min(processes, len(files_to_process)) worker processes.                 *)
(***************************************************************************)
\* a pool with one process per dispatched file
PoolSizeAll == Len(files_to_process)

\* Pool(processes=min(args.processes, len(files_to_process)))
PoolSize == IF Processes < Len(files_to_process) THEN Processes ELSE Len(files_to_process)

Busy == {i \in Workers : wst[i].pc = "run"}

\* the tasks ahead of task i in the pool's task queue have been taken
IsNextTask(i) ==
    \E k \in 1..Len(files_to_process) :
        /\ files_to_process[k] = i
        /\ \A j \in 1..(k - 1) : wst[files_to_process[j]].pc # "queued"

\* process_file up to the line loop: queue.put(file), FileHandle, database_connect
TaskStart(i) ==
    /\ cpc \in Running
    /\ wst[i].pc = "queued"
    /\ IsNextTask(i)
    /\ Cardinality(Busy) < PoolSize
    /\ queue' = ChannelPut(queue, wst[i].file)
    /\ wst' = [wst EXCEPT ![i].pc = "run", ![i].sent = Append(@, "start")]
    /\ UNCHANGED <<cpc, run, args, disk, input_files, loaded, resumed, files_to_process,
                   ready, totals, clock, progress_queue, speed_queue, dec, win>>

\* what the Thread Fetcher and the Record Sink may answer on worker i's next
\* line: only the calls the line makes have an outcome
FetchChoices(i) ==
    LET line == TreeFile(wst[i].file.input_path).lines[wst[i].idx + 1]
        r == TryLine(wst[i].file, 0, 0, line.json, args.field, ValueSet(args.value),
                     -1, "ok", TRUE)
    IN  IF args.comment_depth >= 0 /\ r.matched_records > 0
        THEN FetchOutcomes ELSE {"ok"}

SinkChoices(i) ==
    LET line == TreeFile(wst[i].file.input_path).lines[wst[i].idx + 1]
        r == TryLine(wst[i].file, wst[i].matched_records, 0, line.json, args.field,
                     ValueSet(args.value), -1, "ok", FALSE)
    IN  IF r.exc = "DatabaseError" THEN BOOLEAN ELSE {TRUE}

\* yield_lines yields the next line and the loop body handles it; if the body
\* raises out of the loop, the handler and the final queue.put(file) follow
ReadLine(i) ==
    /\ cpc \in Running
    /\ wst[i].pc = "run"
    /\ wst[i].idx < Len(TreeFile(wst[i].file.input_path).lines)
    /\ \E sink_ok \in SinkChoices(i), fetch \in FetchChoices(i) :
        LET line == TreeFile(wst[i].file.input_path).lines[wst[i].idx + 1]
            r == LineStep(wst[i], line, args.field, ValueSet(args.value),
                          args.comment_depth, fetch, sink_ok)
        IN  /\ wst' = [wst EXCEPT ![i] =
                           [r.w EXCEPT !.sent = IF r.put THEN Append(@, "progress")
                                                 ELSE IF r.w.pc = "returned"
                                                      THEN Append(@, "final")
                                                 ELSE @]]
            /\ queue' = IF r.put \/ r.w.pc = "returned"
                         THEN ChannelPut(queue, r.w.file) ELSE queue
    /\ UNCHANGED <<cpc, run, args, disk, input_files, loaded, resumed, files_to_process,
                   ready, totals, clock, progress_queue, speed_queue, dec, win>>

\* read_and_decode raises UnicodeError out of yield_lines; the handler and the
\* final queue.put(file) follow
DecodeError(i) ==
    /\ cpc \in Running
    /\ wst[i].pc = "run"
    /\ wst[i].idx = Len(TreeFile(wst[i].file.input_path).lines)
    /\ TreeFile(wst[i].file.input_path).corrupt
    /\ wst' = [wst EXCEPT ![i] =
                  [FileExcept(wst[i], wst[i].file, wst[i].matched_records,
                              wst[i].comment_records, "UnicodeError")
                   EXCEPT !.sent = Append(@, "final")]]
    /\ queue' = ChannelPut(queue, wst'[i].file)
    /\ UNCHANGED <<cpc, run, args, disk, input_files, loaded, resumed, files_to_process,
                   ready, totals, clock, progress_queue, speed_queue, dec, win>>

\* the line sequence is exhausted: the remaining batches are saved, the file is
\* complete (or the save raises), and the final queue.put(file) follows
Exhausted(i) ==
    /\ cpc \in Running
    /\ wst[i].pc = "run"
    /\ wst[i].idx = Len(TreeFile(wst[i].file.input_path).lines)
    /\ ~TreeFile(wst[i].file.input_path).corrupt
    /\ \E sink_ok \in (IF wst[i].matched_records > 0 \/ wst[i].comment_records > 0
                        THEN BOOLEAN ELSE {TRUE}) :
        wst' = [wst EXCEPT ![i] =
                   [(IF (wst[i].matched_records > 0 \/ wst[i].comment_records > 0)
                        /\ ~sink_ok
                     THEN FileExcept(wst[i], wst[i].file, wst[i].matched_records,
                                     wst[i].comment_records, "DatabaseError")
                     ELSE [wst[i] EXCEPT !.matched_records = 0,
                                         !.comment_records = 0,
                                         !.saved = @ + wst[i].matched_records,
                                         !.file.complete = TRUE,
                                         !.file.bytes_processed = wst[i].file.file_size,
                                         !.pc = "returned"])
                    EXCEPT !.sent = Append(@, "final")]]
    /\ queue' = ChannelPut(queue, wst'[i].file)
    /\ UNCHANGED <<cpc, run, args, disk, input_files, loaded, resumed, files_to_process,
                   ready, totals, clock, progress_queue, speed_queue, dec, win>>

\* the pool's result handler has collected every task's result: workers.ready()
ResultsReady ==
    /\ cpc \in Running
    /\ ~ready
    /\ \A k \in 1..Len(files_to_process) :
           wst[files_to_process[k]].pc \in {"returned", "escaped"}
    /\ ready' = TRUE
    /\ UNCHANGED <<cpc, run, args, disk, input_files, loaded, resumed, files_to_process,
                   queue, wst, totals, clock, progress_queue, speed_queue, dec, win>>

(***************************************************************************)
(* The drain loop.                                                         *)
(***************************************************************************)
\* a test that takes every update as terminal
TerminalAlways(file) == file.lines_processed >= 0

\* if file_update.complete or file_update.error_message is not None
Terminal(file) == file.complete \/ file.error_message # None

\* file_update = queue.get() returns, the body of the loop runs, and the loop
\* condition is evaluated again
Receive ==
    /\ cpc = "get"
    /\ queue # <<>>
    /\ queue' = Tail(queue)
    /\ LET file_update == Head(queue)
           merged == Merge(input_files, file_update)
           tot == LoopTotals(merged, totals.total_bytes)
           current_time == clock + 1
           pq == QueuePut(progress_queue,
                          [time |-> current_time, lines |-> tot.lines_processed,
                           bytes |-> tot.bytes_processed], WindowCap)
           first == QueuePeek(pq)
           elapsed == current_time - first.time
           bytes_per_second == TruncDiv(tot.bytes_processed - first.bytes, elapsed)
           sq == QueuePut(speed_queue, bytes_per_second, WindowCap)
           mean == TruncDiv(SumSeq(sq), Len(sq))
       IN  IF IsStartUpdate(file_update)
           THEN /\ cpc' = LoopCheck(ready, Tail(queue))
                /\ UNCHANGED <<disk, input_files, totals, clock, progress_queue,
                               speed_queue>>
           ELSE /\ input_files' = merged
                /\ totals' = tot
                /\ disk' = IF Terminal(file_update)
                           THEN save_file_list(merged, ArgString(args.field, args.value),
                                               script_type)
                           ELSE disk
                /\ clock' = current_time
                /\ progress_queue' = pq
                /\ speed_queue' = IF elapsed = 0 THEN speed_queue ELSE sq
                /\ cpc' = IF elapsed = 0 \/ mean = 0 THEN "crashed"
                          ELSE LoopCheck(ready, Tail(queue))
    /\ UNCHANGED <<run, args, loaded, resumed, files_to_process, ready, wst, dec, win>>

\* the operator kills the process: memory, pool and channel are gone
Kill ==
    /\ cpc \in Running
    /\ cpc' = "killed"
    /\ input_files' = <<>>
    /\ loaded' = <<>>
    /\ resumed' = FALSE
    /\ files_to_process' = <<>>
    /\ queue' = <<>>
    /\ ready' = FALSE
    /\ wst' = [i \in Workers |-> IdleWorker]
    /\ totals' = NoTotals
    /\ clock' = 0
    /\ progress_queue' = <<>>
    /\ speed_queue' = <<>>
    /\ UNCHANGED <<run, args, disk, dec, win>>

\* the operator kills the process inside save_file_list, after open(status_json,
\* 'w') has emptied the file and before the text is written and flushed
KillInSave ==
    /\ cpc = "get"
    /\ queue # <<>>
    /\ Head(queue).lines_processed # 0
    /\ Terminal(Head(queue))
    /\ disk' = Truncated
    /\ cpc' = "killed"
    /\ input_files' = <<>>
    /\ loaded' = <<>>
    /\ resumed' = FALSE
    /\ files_to_process' = <<>>
    /\ queue' = <<>>
    /\ ready' = FALSE
    /\ wst' = [i \in Workers |-> IdleWorker]
    /\ totals' = NoTotals
    /\ clock' = 0
    /\ progress_queue' = <<>>
    /\ speed_queue' = <<>>
    /\ UNCHANGED <<run, args, dec, win>>

Next ==
    \/ Start
    \/ \E i \in Workers : TaskStart(i)
    \/ \E i \in Workers : ReadLine(i)
    \/ \E i \in Workers : DecodeError(i)
    \/ \E i \in Workers : Exhausted(i)
    \/ ResultsReady
    \/ Receive
    \/ Kill
    \/ KillInSave

Spec == Init /\ [][Next]_vars

\* the decoder alone, over every content and chunk size of the bounds
DecInit ==
    /\ cpc = "init"
    /\ run = 0
    /\ args = [field |-> FieldArg, value |-> <<>>, comment_depth |-> -1]
    /\ disk = NoFile
    /\ input_files = <<>>
    /\ loaded = <<>>
    /\ resumed = FALSE
    /\ files_to_process = <<>>
    /\ queue = <<>>
    /\ ready = FALSE
    /\ wst = [i \in Workers |-> IdleWorker]
    /\ totals = NoTotals
    /\ clock = 0
    /\ progress_queue = <<>>
    /\ speed_queue = <<>>
    /\ dec \in {[NoGenerator EXCEPT !.pc = "loop", !.content = c, !.chunk_size = k] :
                   c \in Contents, k \in ChunkSizes}
    /\ win = NoWindow

DecNext == NextChunk \/ EndOfStream \/ DecodeRaise

SpecDecoder == DecInit /\ [][DecNext]_vars

\* a Queue alone, for every max_size of the bounds and every sequence of puts
WinInit ==
    /\ cpc = "init"
    /\ run = 0
    /\ args = [field |-> FieldArg, value |-> <<>>, comment_depth |-> -1]
    /\ disk = NoFile
    /\ input_files = <<>>
    /\ loaded = <<>>
    /\ resumed = FALSE
    /\ files_to_process = <<>>
    /\ queue = <<>>
    /\ ready = FALSE
    /\ wst = [i \in Workers |-> IdleWorker]
    /\ totals = NoTotals
    /\ clock = 0
    /\ progress_queue = <<>>
    /\ speed_queue = <<>>
    /\ dec = NoGenerator
    /\ win \in {[NoWindow EXCEPT !.max_size = c] : c \in 1..MaxCap}

WinNext == WinPut \/ WinPeek

SpecWindow == WinInit /\ [][WinNext]_vars

(***************************************************************************)
(* Claims.                                                                 *)
(***************************************************************************)
LoadedComplete == {i \in 1..Len(loaded) : loaded[i].complete}

NextLine(i) == TreeFile(wst[i].file.input_path).lines[wst[i].idx + 1]

\* worker i takes a step of the line loop on its next line
LineStepOf(i) ==
    /\ cpc \in Running /\ cpc' \in Running
    /\ wst[i].pc = "run"
    /\ wst[i].idx < Len(TreeFile(wst[i].file.input_path).lines)
    /\ wst'[i] # wst[i]

\* C1: on a resumed run with matching fingerprint and run type, the files
\* dispatched are exactly the entries the checkpoint records as not complete;
\* no worker reads a line of a completed file, no snapshot of it is sent, and
\* its entry of the authoritative list stays as loaded.
C1_CompletedSkipped ==
    (resumed /\ cpc \in (Running \cup {"done", "crashed"})) =>
        /\ Range(files_to_process) = {i \in 1..Len(loaded) : ~loaded[i].complete}
        /\ \A i \in LoadedComplete :
              /\ wst[i].pc = "idle"
              /\ wst[i].idx = 0
              /\ input_files[i] = loaded[i]
              /\ \A k \in 1..Len(queue) : queue[k].input_path # loaded[i].input_path

C1_Witness ==
    /\ resumed
    /\ LoadedComplete # {}
    /\ \E i \in Workers : wst[i].idx > 0
    /\ input_files # loaded

\* C2: a start that finds a checkpoint whose argument string or run type
\* differs from the current run's aborts: no file is dispatched, no worker
\* starts, nothing is put on the channel, no line is read and the checkpoint
\* file stays as it was.
C2_MismatchAborts ==
    /\ [][(/\ cpc \in Ended
           /\ run' = run + 1
           /\ disk.exists
           /\ disk.intact
           /\ \/ disk.args # ArgString(args'.field, args'.value)
              \/ disk.type # script_type)
          => (/\ cpc' = "aborted"
              /\ disk' = disk
              /\ files_to_process' = <<>>
              /\ queue' = <<>>
              /\ \A i \in Workers : wst'[i].pc = "idle" /\ wst'[i].idx = 0)]_vars
    /\ [](cpc = "aborted" =>
             /\ files_to_process = <<>>
             /\ queue = <<>>
             /\ \A i \in Workers : wst[i].pc = "idle" /\ wst[i].idx = 0)

C2_Witness ==
    /\ cpc = "aborted"
    /\ disk.type = script_type
    /\ disk.args # ArgString(args.field, args.value)
    /\ \E i \in 1..Len(disk.files) : disk.files[i][3]

CountersBounded(file) ==
    /\ file.lines_matched <= file.lines_processed
    /\ file.bytes_processed <= file.file_size

\* C3: every Task Record snapshot (on the update channel, in the authoritative
\* list, rehydrated from a checkpoint) has lines_matched <= lines_processed and
\* bytes_processed <= file_size.
C3_CountersBounded ==
    /\ \A k \in 1..Len(queue) : CountersBounded(queue[k])
    /\ \A i \in 1..Len(input_files) : CountersBounded(input_files[i])
    /\ \A i \in 1..Len(loaded) : CountersBounded(loaded[i])

\* C4: the coordinator is never blocked in queue.get() when every worker has
\* finished and the channel is empty (no message will ever arrive).
C4_DrainEnds == ~(cpc = "get" /\ ready /\ queue = <<>>)

\* C5: each time the coordinator receives an update that is complete or has an
\* error message, it merges the record into the authoritative list and writes
\* a checkpoint of the full list holding that record's terminal state.
C5_TerminalCheckpointed ==
    [][(/\ cpc = "get"
        /\ queue # <<>>
        /\ Terminal(Head(queue))
        /\ Len(queue') < Len(queue)
        /\ cpc' \in {"get", "done", "crashed"})
       => (/\ \E i \in 1..Len(input_files') : input_files'[i] = Head(queue)
           /\ disk' = save_file_list(input_files', ArgString(args.field, args.value),
                                     script_type)
           /\ \E i \in 1..Len(disk'.files) : disk'.files[i] = SimpleFile(Head(queue)))]_vars

\* a line that is no key/value record, or one without the filter field
BadLine(json, field) == json.syntax # "object" \/ field \notin DOMAIN json.fields

\* C6: a line that cannot be parsed as a key/value record, or lacks the filter
\* field, adds one to error_lines and to lines_processed, leaves lines_matched,
\* sets no error_message and does not halt the file.
C6_BadLineSoft ==
    [][\A i \in Workers :
          (LineStepOf(i) /\ BadLine(NextLine(i).json, args.field))
          => (/\ wst'[i].file.error_lines = wst[i].file.error_lines + 1
              /\ wst'[i].file.lines_processed = wst[i].file.lines_processed + 1
              /\ wst'[i].file.lines_matched = wst[i].file.lines_matched
              /\ wst'[i].file.error_message = None
              /\ wst'[i].pc = "run")]_vars

\* the predicate of the specification: equals or contains a member of the set
SpecMatched(values, observed) ==
    \E v \in values : v = observed \/ IsSubstring(v, observed)

\* C7: a line is counted as matched if and only if its lower-cased field value
\* equals, or contains, at least one member of the configured value set,
\* whatever the size of the set.
C7_MatchedIff ==
    [][\A i \in Workers :
          (/\ LineStepOf(i)
           /\ ~BadLine(NextLine(i).json, args.field)
           /\ NextLine(i).json.fields[args.field].type = "str")
          => (wst'[i].file.lines_matched = wst[i].file.lines_matched + 1
              <=> SpecMatched(ValueSet(args.value),
                              LowerStr(NextLine(i).json.fields[args.field].chars)))]_vars

\* C8: an exception other than a per-line parse failure never escapes
\* process_file: the worker records its text as error_message, leaves complete
\* false, reads no further line and sends the record as its final snapshot.
C8_FileErrorRecorded ==
    /\ [](\A i \in Workers :
             /\ wst[i].pc # "escaped"
             /\ wst[i].err # None =>
                   /\ wst[i].pc = "returned"
                   /\ wst[i].file.error_message = wst[i].err
                   /\ ~wst[i].file.complete)
    /\ [][\A i \in Workers :
             /\ (LineStepOf(i) /\ NextLine(i).json.syntax = "array")
                => wst'[i].file.error_message = "TypeError"
             /\ (/\ cpc \in Running /\ cpc' \in Running
                 /\ wst[i].pc = "run" /\ wst'[i] # wst[i]
                 /\ wst[i].idx = Len(TreeFile(wst[i].file.input_path).lines)
                 /\ TreeFile(wst[i].file.input_path).corrupt)
                => wst'[i].file.error_message = "UnicodeError"
             /\ (/\ cpc \in Running /\ cpc' \in Running
                 /\ wst[i].err = None /\ wst'[i].err # None)
                => queue' = Append(queue, wst'[i].file)
             /\ (/\ cpc \in Running /\ cpc' \in Running /\ wst[i].err # None)
                => wst'[i] = wst[i]]_vars

C8_Witness ==
    \E i \in Workers :
        /\ wst[i].pc = "returned"
        /\ wst[i].err = "DatabaseError"
        /\ wst[i].file.lines_processed > 0
        /\ \E k \in 1..Len(queue) : queue[k] = wst[i].file

\* C9: when a run is over and one file ended with an error, every other
\* dispatched file has been processed to its terminal snapshot and that
\* snapshot has been merged into the authoritative list.
C9_SiblingsFinish ==
    (/\ cpc \in {"done", "crashed"}
     /\ \E i \in Range(files_to_process) : wst[i].file.error_message # None)
    => \A j \in Range(files_to_process) :
          /\ wst[j].pc = "returned"
          /\ Terminal(input_files[j])

RoundTrip(files) ==
    load_file_list(save_file_list(files, ArgString(args.field, args.value),
                                  script_type)).input_files

\* C10 as stated: save_file_list then load_file_list reproduces path,
\* completion flag and the four counters of every record, in order.
C10_RoundTripAll ==
    /\ Len(RoundTrip(input_files)) = Len(input_files)
    /\ \A i \in 1..Len(input_files) :
          LET a == input_files[i]
              b == RoundTrip(input_files)[i]
          IN  /\ b.input_path = a.input_path
              /\ b.complete = a.complete
              /\ b.lines_processed = a.lines_processed
              /\ b.error_lines = a.error_lines
              /\ b.lines_matched = a.lines_matched
              /\ b.bytes_processed = a.bytes_processed

\* C10 amended: the round trip reproduces, in order, path, completion flag,
\* error_lines and lines_matched of every record; lines_processed and
\* bytes_processed are reproduced for a complete record and are 0 after the
\* round trip for a record that is not complete.
C10_RoundTripAmended ==
    /\ Len(RoundTrip(input_files)) = Len(input_files)
    /\ \A i \in 1..Len(input_files) :
          LET a == input_files[i]
              b == RoundTrip(input_files)[i]
          IN  /\ b.input_path = a.input_path
              /\ b.complete = a.complete
              /\ b.error_lines = a.error_lines
              /\ b.lines_matched = a.lines_matched
              /\ a.complete =>
                    /\ b.lines_processed = a.lines_processed
                    /\ b.bytes_processed = a.bytes_processed
              /\ ~a.complete => (b.lines_processed = 0 /\ b.bytes_processed = 0)

C10_Witness ==
    /\ disk.exists
    /\ disk.files = save_file_list(input_files, disk.args, disk.type).files
    /\ \E i \in 1..Len(input_files) : input_files[i].complete
    /\ \E i \in 1..Len(input_files) :
          /\ input_files[i].error_message # None
          /\ input_files[i].lines_processed > 0
          /\ input_files[i].error_lines # input_files[i].lines_matched

\* C11: at every moment the checkpoint file, if it exists, loads: a kill at any
\* point of save_file_list leaves the previous or the new document, never an
\* empty or truncated one.
C11_SaveAtomic == ~load_file_list(disk).raised

\* C12: when the drain loop has ended with every worker finished, every entry
\* of the authoritative list is complete or has an error message.
C12_AllTerminalAtEnd ==
    (cpc = "done" /\ ready) =>
        \A i \in 1..Len(input_files) : Terminal(input_files[i])

\* C13: on a resumed run every entry the checkpoint does not record as complete
\* (a file that ended with an error before included) is dispatched again, its
\* record carries no line or byte offset, and the lines its worker has handled
\* are the first lines of the file.
C13_RetryFromStart ==
    (resumed /\ cpc \in (Running \cup {"done", "crashed"})) =>
        \A i \in 1..Len(loaded) :
            ~loaded[i].complete =>
                /\ i \in Range(files_to_process)
                /\ wst[i].pc # "idle"
                /\ wst[i].pc = "queued" =>
                      /\ wst[i].idx = 0
                      /\ wst[i].file.lines_processed = 0
                      /\ wst[i].file.bytes_processed = 0
                /\ wst[i].pc = "run" => wst[i].file.lines_processed = wst[i].idx

C13_Witness ==
    /\ resumed
    /\ \E i \in 1..Len(loaded) :
          /\ ~loaded[i].complete
          /\ loaded[i].error_lines > 0
          /\ wst[i].pc = "run"
          /\ wst[i].idx = 1

\* the segments of the decoded content, an empty segment after a final newline
\* not counted
WholeSplit(content) ==
    LET all == SplitLines(Utf8Decode(content).text, <<>>)
    IN  IF all[Len(all)] = <<>> THEN AllButLast(all) ELSE all

IsPrefix(a, b) == Len(a) <= Len(b) /\ SubSeq(b, 1, Len(a)) = a

C15_DecodeErrorBounded ==
    /\ [](/\ dec.reads <= ((WindowRatio * dec.chunk_size) \div dec.chunk_size) + 1
          /\ dec.pc = "closed" => Utf8Decode(dec.content).ok
          /\ dec.pc = "raised" =>
                /\ dec.reads * dec.chunk_size > WindowRatio * dec.chunk_size
                /\ Utf8Decode(SubSeq(dec.content, 1, dec.pos)).ok
                /\ IsPrefix(dec.yielded,
                            SplitLines(Utf8Decode(SubSeq(dec.content, 1, dec.pos)).text,
                                       <<>>)))
    /\ [][dec'.pc = "raised" => dec'.yielded = dec.yielded]_vars

C15_Witness ==
    /\ dec.pc = "raised"
    /\ dec.content = <<"a", "\n", "a", "L3", "c">>
    /\ dec.chunk_size = 2
    /\ dec.yielded = << <<"a">> >>
    /\ dec.reads = WindowRatio + 1

\* C16: the rate and ETA computation never raises: no update ends the
\* coordinator with a ZeroDivisionError.
C16_EtaNeverRaises == cpc # "crashed"

\* C17: the exit code is 0 on normal completion and when there is nothing to
\* do, and non-zero when, and only when, the fingerprint or the run type does
\* not match an existing checkpoint.
C17_ExitCodes ==
    /\ cpc \in {"done", "nofiles"} => ExitCode(cpc) = 0
    /\ cpc = "aborted" => ExitCode(cpc) > 0
    /\ ExitCode(cpc) > 0 => cpc = "aborted"

\* C18: after each line is handled the pending matched-record batch holds
\* fewer than batch_size records, and when a file is marked complete both
\* pending batches are empty.
C18_BatchBounded ==
    \A i \in Workers :
        /\ wst[i].pc = "run" => wst[i].matched_records < BatchSize
        /\ wst[i].file.complete =>
              (wst[i].matched_records = 0 /\ wst[i].comment_records = 0)

\* C19: every final snapshot is either complete with bytes_processed =
\* file_size and no error message, or not complete with an error message;
\* no snapshot has both complete and an error message.
C19_FinalSnapshotStates ==
    /\ \A k \in 1..Len(queue) : ~(queue[k].complete /\ queue[k].error_message # None)
    /\ \A i \in Workers :
          (wst[i].pc = "returned" /\ wst[i].sent # <<>>) =>
              LET f == wst[i].file
              IN  /\ wst[i].sent[Len(wst[i].sent)] = "final"
                  /\ \/ (/\ f.complete
                         /\ f.bytes_processed = f.file_size
                         /\ f.error_message = None
                         /\ wst[i].idx = Len(TreeFile(f.input_path).lines))
                     \/ (~f.complete /\ f.error_message # None)

C19_Witness ==
    /\ \E i \in Workers : wst[i].pc = "returned" /\ wst[i].file.complete
    /\ \E i \in Workers :
          /\ wst[i].pc = "returned"
          /\ wst[i].file.error_message # None
          /\ wst[i].file.lines_processed > 0

RECURSIVE Repeat(_, _)
Repeat(x, n) == IF n = 0 THEN <<>> ELSE <<x>> \o Repeat(x, n - 1)

\* the messages of a worker that has handled lp lines
Messages(lp, final) ==
    <<"start">> \o Repeat("progress", lp \div ProgressEvery)
                \o (IF final THEN <<"final">> ELSE <<>>)

\* C20 as stated: the messages of a file are a start snapshot, a progress
\* snapshot per multiple of the throttle, and one final snapshot: 2 + floor(n /
\* throttle) messages for a file of n lines.
C20_MessageCount ==
    \A i \in Workers :
        wst[i].pc = "returned" =>
            wst[i].sent = Messages(Len(TreeFile(wst[i].file.input_path).lines), TRUE)

\* C20 amended: the messages of a file are, in order, one start snapshot before
\* any line is read, one progress snapshot each time lines_processed reaches a
\* multiple of the throttle and at no other line, and exactly one final
\* snapshot: 2 + floor(lines_processed / throttle) messages, lines_processed
\* being the count of the final snapshot (n for a file read to its end).
C20_MessageCountAmended ==
    \A i \in Workers :
        /\ wst[i].pc = "queued" => wst[i].sent = <<>>
        /\ wst[i].pc = "run" => wst[i].sent = Messages(wst[i].file.lines_processed, FALSE)
        /\ wst[i].pc = "returned" =>
              /\ wst[i].sent = Messages(wst[i].file.lines_processed, TRUE)
              /\ wst[i].file.complete =>
                    wst[i].file.lines_processed
                        = Len(TreeFile(wst[i].file.input_path).lines)

C20_Witness ==
    /\ \E i \in Workers :
          /\ wst[i].pc = "returned"
          /\ wst[i].file.complete
          /\ wst[i].sent = <<"start", "progress", "final">>
    /\ \E i \in Workers :
          /\ wst[i].pc = "returned"
          /\ ~wst[i].file.complete
          /\ wst[i].sent = <<"start", "progress", "final">>

\* the number of "start" messages in a worker's log
RECURSIVE Starts(_)
Starts(log) ==
    IF log = <<>> THEN 0
    ELSE (IF Head(log) = "start" THEN 1 ELSE 0) + Starts(Tail(log))

\* C21: at most min(processes, number of dispatched files) workers run at a
\* time, every dispatched file is one task, a task is started once, and a task
\* that has returned is not touched again in the run.
C21_OneWorkerPerFile ==
    /\ [](cpc \in Running =>
             /\ Cardinality(Busy) <= Processes
             /\ Cardinality(Busy) <= Len(files_to_process)
             /\ Cardinality(Range(files_to_process)) = Len(files_to_process)
             /\ \A i \in Workers :
                   /\ wst[i].pc \in {"run", "returned"} =>
                         (i \in Range(files_to_process) /\ Starts(wst[i].sent) = 1)
                   /\ wst[i].pc \in {"queued", "idle"} => Starts(wst[i].sent) = 0)
    /\ [][\A i \in Workers :
             (cpc \in Running /\ cpc' \in (Running \cup {"done", "crashed"})) =>
                 /\ wst[i].pc = "returned" => wst'[i] = wst[i]
                 /\ wst[i].pc = "run" => wst'[i].pc \in {"run", "returned"}]_vars

C21_Witness ==
    /\ cpc \in Running
    /\ Len(files_to_process) > Processes
    /\ Cardinality(Busy) = Processes
    /\ \E i \in Workers : wst[i].pc = "returned"

\* the coordinator handles an update that has counted lines
MergeStep ==
    /\ cpc = "get"
    /\ queue # <<>>
    /\ Head(queue).lines_processed # 0
    /\ Len(queue') < Len(queue)
    /\ cpc' \in {"get", "done", "crashed"}

\* C22: a merge replaces the entry whose input path is the snapshot's and
\* leaves the others; afterwards every total is the sum over the full list,
\* processed bytes are at most total bytes and the finished-file count is at
\* most the number of files.
C22_MergeAndTotals ==
    [][MergeStep =>
          LET n == Len(input_files')
              Sum(field) == SumSeq([i \in 1..n |-> input_files'[i][field]])
          IN  /\ n = Len(input_files)
              /\ \A i \in 1..n :
                    input_files'[i] =
                        IF input_files[i].input_path = Head(queue).input_path
                        THEN Head(queue) ELSE input_files[i]
              /\ totals'.lines_processed = Sum("lines_processed")
              /\ totals'.lines_matched = Sum("lines_matched")
              /\ totals'.bytes_processed = Sum("bytes_processed")
              /\ totals'.lines_errored = Sum("error_lines")
              /\ totals'.total_bytes = Sum("file_size")
              /\ totals'.files_processed =
                     Cardinality({i \in 1..n : input_files'[i].complete
                                     \/ input_files'[i].error_message # None})
              /\ totals'.files_errored =
                     Cardinality({i \in 1..n : input_files'[i].error_message # None})
              /\ totals'.bytes_processed <= totals'.total_bytes
              /\ totals'.files_processed <= n]_vars

C22_Witness ==
    /\ cpc = "get"
    /\ totals.files_processed = 2
    /\ totals.files_errored = 1
    /\ totals.lines_processed > 3
    /\ \E i \in 1..Len(input_files) : input_files[i].lines_processed = 0

\* C23: the checkpoint file changes only when the task list is first built at
\* a start that found no checkpoint, and when the coordinator handles an
\* update that is complete or has an error message.
C23_CheckpointPoints ==
    [][disk' # disk =>
          \/ (cpc \in Ended /\ run' = run + 1 /\ ~disk.exists)
          \/ (/\ cpc = "get"
              /\ queue # <<>>
              /\ Head(queue).complete \/ Head(queue).error_message # None)]_vars

C23_Witness ==
    /\ cpc = "get"
    /\ \E i \in 1..Len(input_files) :
          /\ input_files[i].lines_processed > 0
          /\ ~input_files[i].complete
          /\ input_files[i].error_message = None
          /\ disk.files[i][4] = 0
    /\ \E i \in 1..Len(input_files) : disk.files[i][3]

\* C24: a start that finds no checkpoint file does not fail in loading; it
\* builds the task list from the eligible files of the input tree, writes it
\* (the working folder made if missing) and only then the pool starts: no
\* worker has sent or read anything.
C24_FirstRunBuilds ==
    [][(cpc \in Ended /\ run' = run + 1 /\ ~disk.exists) =>
          /\ cpc' = "get"
          /\ ~resumed'
          /\ disk'.exists /\ disk'.folder /\ disk'.intact
          /\ disk'.args = ArgString(args'.field, args'.value)
          /\ disk'.type = script_type
          /\ [i \in 1..Len(disk'.files) |-> disk'.files[i][1]]
                 = <<"RS_2020-01.zst", "RC_2020-02.zst", "RS_2020-03.zst">>
          /\ \A i \in 1..Len(disk'.files) :
                /\ disk'.files[i][3] = FALSE
                /\ disk'.files[i][4] = 0
                /\ input_files'[i].input_path = disk'.files[i][1]
                /\ input_files'[i].file_size = StatSize(disk'.files[i][1])
          /\ Len(input_files') = Len(disk'.files)
          /\ queue' = <<>>
          /\ \A i \in Workers :
                wst'[i].pc = "queued" /\ wst'[i].idx = 0 /\ wst'[i].sent = <<>>]_vars

C24_Witness ==
    /\ run = 1
    /\ cpc = "get"
    /\ ~resumed
    /\ disk.exists /\ disk.folder
    /\ queue = <<>>
    /\ \A i \in Workers : wst[i].pc = "queued"

\* C25: after n puts on a window of capacity c the window holds the last
\* min(n, c) samples put, in order; peek leaves the window as it is and
\* returns its oldest sample, or None when it is empty.
C25_SlidingWindow ==
    /\ [](LET n == Len(win.puts)
              k == IF n < win.max_size THEN n ELSE win.max_size
          IN  /\ Len(win.list) <= win.max_size
              /\ win.list = SubSeq(win.puts, n - k + 1, n))
    /\ [][(win' # win /\ win'.puts = win.puts) =>
             LET n == Len(win.puts)
                 k == IF n < win.max_size THEN n ELSE win.max_size
             IN  /\ win'.list = win.list
                 /\ win'.peeked = IF n = 0 THEN None ELSE win.puts[n - k + 1]]_vars

C25_Witness ==
    /\ win.max_size = 2
    /\ win.puts = <<"y", "x", "x", "y">>
    /\ win.list = <<"x", "y">>
    /\ win.peeked = "x"

\* C26: when a file is marked complete, the number of Matched Records its
\* worker committed to the sink equals the file's lines_matched.
C26_SinkCountEqualsMatched ==
    \A i \in Workers :
        (~resumed /\ wst[i].pc = "returned" /\ wst[i].file.complete) =>
            wst[i].saved = wst[i].file.lines_matched

RECURSIVE FreshRun(_, _, _)
FreshRun(w, lines, k) ==
    IF k > Len(lines) THEN w
    ELSE FreshRun(LineStep(w, lines[k], args.field, ValueSet(args.value), -1, "ok",
                           TRUE).w, lines, k + 1)

FreshFile(path) ==
    FreshRun([IdleWorker EXCEPT !.pc = "run",
                                !.file = FileConfig(path, path, FALSE, 0, 0, 0)],
             TreeFile(path).lines, 1).file

\* C28: a file a resumed run processes to completion ends with the
\* lines_processed, lines_matched and error_lines of a fresh run (stated for
\* runs without comment capture, where the counts of a fresh run are fixed).
C28_ResumedLikeFresh ==
    \A i \in Workers :
        (/\ resumed
         /\ args.comment_depth = -1
         /\ wst[i].pc = "returned"
         /\ wst[i].file.complete) =>
            LET f == FreshFile(wst[i].file.input_path)
            IN  /\ wst[i].file.lines_processed = f.lines_processed
                /\ wst[i].file.lines_matched = f.lines_matched
                /\ wst[i].file.error_lines = f.error_lines

\* C29: the lines yielded so far, followed by the segment carried in buffer,
\* are the split of the decoded bytes read so far: every newline-terminated
\* line is yielded once and in order, and when the generator ends the text
\* after the last newline is left in buffer, not yielded.
C29_TerminatedLinesOnly ==
    dec.pc # "none" =>
        LET read == Utf8Decode(SubSeq(dec.content, 1, dec.pos))
        IN  /\ read.ok
            /\ SplitLines(read.text, <<>>) = dec.yielded \o <<dec.buffer>>
            /\ \A k \in 1..Len(dec.buffer) : dec.buffer[k] # "\n"
            /\ dec.pc = "closed" => dec.pos = Len(dec.content)

C29_Witness ==
    /\ dec.pc = "closed"
    /\ dec.chunk_size = 2
    /\ dec.content = <<"a", "\n", "a", "\n", "a">>
    /\ Len(dec.yielded) = 2
    /\ dec.buffer = <<"a">>

\* C30: during a run no entry of the authoritative list has a counter that
\* decreases, and an entry that is complete or has an error message is not
\* replaced again.
C30_MergedInOrder ==
    [][(/\ cpc \in Running
        /\ cpc' \in (Running \cup {"done", "crashed"})
        /\ Len(input_files') = Len(input_files))
       => \A i \in 1..Len(input_files) :
             /\ input_files'[i].lines_processed >= input_files[i].lines_processed
             /\ input_files'[i].lines_matched >= input_files[i].lines_matched
             /\ input_files'[i].error_lines >= input_files[i].error_lines
             /\ input_files'[i].bytes_processed >= input_files[i].bytes_processed
             /\ Terminal(input_files[i]) => input_files'[i] = input_files[i]]_vars

C30_Witness ==
    /\ cpc \in {"get", "done"}
    /\ \E i \in Workers :
          /\ wst[i].sent = <<"start", "progress", "final">>
          /\ input_files[i] = wst[i].file
          /\ input_files[i].complete
          /\ \A k \in 1..Len(queue) : queue[k].input_path # wst[i].file.input_path

====
